---- MODULE Spec2Model ----
(***************************************************************************)
(* A model of the drishti crowd-safety pipeline.                           *)
(*                                                                         *)
(*   - split_video (src/video_splitter.py): the chunking loop that turns   *)
(*     a video of total_duration seconds into overlapping, UTC-stamped     *)
(*     windows.  Durations and offsets are counted in quarter seconds      *)
(*     (one tick = 0.25 s), so that spans below the 0.5 s threshold of     *)
(*     the loop exist and are exact.                                       *)
(*   - the event flow (src/drishti_agent.py, handle_event) and the tool    *)
(*     of the crowd density agent (src/agents/predictor.py).               *)
(*                                                                         *)
(* The two parts share no state; each has its own specification          *)
(* (SpecSeg, SpecEvent) that leaves the other part's variables unchanged.  *)
(***************************************************************************)
EXTENDS Integers, Sequences, FiniteSets, TLC

VARIABLES
    \* ---- split_video ----
    pc,              \* "idle" | "loop" | "done": position inside split_video
    args,            \* the arguments of the call and what the file system / ffprobe answer
    start_datetime,  \* parsed or clock-read start of the first chunk
    start_time,      \* offset of the next chunk (ticks)
    counter,         \* 1-based index of the next chunk
    chunk_info_list, \* the windows appended so far
    outcome,         \* "none" | "ok" | the exception raised
    dir_created,     \* output_dir.mkdir has run in this call
    probe_calls,     \* ffprobe invocations of this call
    cut_calls,       \* ffmpeg invocations of this call
    clock,           \* the wall clock (ticks)
    calls,           \* how many times split_video was entered with these args
    first_result,    \* the list returned by the first call
    \* ---- event flow / predictor ----
    epc,             \* "idle" | "validated" | "fetched" | "done": position inside handle_event
    store,           \* the 'events' collection, newest first by end_utc_time
    event_data,      \* the event passed to handle_event
    recent_events,   \* what get_recent_events returned
    combined_data,   \* the records handed to the qualitative agent
    analysis,        \* the agent's final response (a QualitativeAnalysis, or NoResponse)
    response,        \* what handle_event returned
    latest_frames,   \* predictor.py: what fetch_latest_5_frames returned
    prediction,      \* predictor.py: what predict_next_frame returned
    \* ---- dispatch_unit / Pub/Sub ----
    published,       \* the messages on the dispatcher topic, oldest first
    decisions,       \* one record per dispatch_unit call, oldest first
    dnow,            \* the wall clock seen by dispatch_unit (minutes)
    \* ---- message handling (process_message and the agents) ----
    rpc,             \* "idle" | "running" | "done": position inside process_message
    rmsg,            \* the payload being handled
    ragent,          \* the agent the runner is executing
    rflows,          \* the agents that have handled the payload, in order
    rtools,          \* the tool calls made for the payload: [agent, tool, priority]
    rsteps,          \* model steps taken for the payload
    rresponse,       \* what process_message returned
    \* ---- analyzers ----
    apc,             \* "idle" | "done"
    atext,           \* the model's raw response text
    abase,           \* the bare JSON object inside atext, or atext itself
    aresult,         \* run_gemini_analysis_sync on atext
    aresult_base,    \* run_gemini_analysis_sync on abase
    sresult,         \* analyze_video_file's result for atext
    sresult_base,    \* analyze_video_file's result for abase
    \* ---- video_splitter.main ----
    ppc,             \* "idle" | "next" | "analysed" | "stored" | "done"
    pchunks,         \* chunks: what split_video returned
    pidx,            \* position of the for loop in chunks
    panalysis,       \* analysis of the chunk in hand
    panalyses,       \* what analyze_video_chunk returned, chunk by chunk
    analysis_results,\* the flattened results kept for the output file
    poutcome,        \* "none" | "ok" | "raised"
    \* ---- SecurityMultiAgentSystem: sessions and concurrent calls ----
    setup_complete,  \* self.setup_complete
    created,         \* per session: create_session calls made for it
    history,         \* per session: the events the session holds, in order
    tpc,             \* per task: "idle" | "create" | "ready" | "running" | "done"
    tcall,           \* per task: the call it is running
    tcur,            \* per task: position of setup_sessions' loop
    tmsg,            \* per task: number of the message it handles
    tresp,           \* per task: what its call returned
    nmsg,            \* messages received so far
    \* ---- the HTTP surface (app.py, orchestrator.py) ----
    hpc,             \* "idle" | "invoking" | "done"
    hbody,           \* the request body
    hsession,        \* the events of the session the request's runner uses
    hresponse,       \* what the endpoint returned
    hlog             \* per user: the messages and responses of earlier requests

segVars == <<pc, args, start_datetime, start_time, counter, chunk_info_list, outcome,
             dir_created, probe_calls, cut_calls, clock, calls, first_result>>
evVars == <<epc, store, event_data, recent_events, combined_data, analysis, response,
            latest_frames, prediction>>
dpVars == <<published, decisions, dnow>>
rtVars == <<rpc, rmsg, ragent, rflows, rtools, rsteps, rresponse>>
anVars == <<apc, atext, abase, aresult, aresult_base, sresult, sresult_base>>
plVars == <<ppc, pchunks, pidx, panalysis, panalyses, analysis_results, poutcome>>
snVars == <<setup_complete, created, history, tpc, tcall, tcur, tmsg, tresp, nmsg>>
htVars == <<hpc, hbody, hsession, hresponse, hlog>>
vars == <<segVars, evVars, dpVars, rtVars, anVars, plVars, snVars, htVars>>
nonSegVars == <<evVars, dpVars, rtVars, anVars, plVars, snVars, htVars>>
nonEvVars == <<segVars, dpVars, rtVars, anVars, plVars, snVars, htVars>>

\* Python's None, where a record is expected
None == [text |-> "None"]

Min(a, b) == IF a <= b THEN a ELSE b

\* Nothing dispatched, no message in hand, nothing analysed.
DpIdle == published = <<>> /\ decisions = <<>> /\ dnow = 0
RtIdle ==
    /\ rpc = "idle"
    /\ rmsg = None
    /\ ragent = "none"
    /\ rflows = <<>>
    /\ rtools = {}
    /\ rsteps = 0
    /\ rresponse = "none"
\* self.session_ids, drishti_agent.py lines 335-340, in the order the loop of
\* setup_sessions goes through them
Kinds == <<"orchestrator", "qualitative", "security_chat", "dispatch">>
KindSet == {Kinds[i] : i \in 1..Len(Kinds)}

\* Concurrent calls into one SecurityMultiAgentSystem.
Tasks == {"a", "b"}
Users == {"u1", "u2"}

NoCall == [entry |-> "none", kind |-> "none", valid |-> TRUE]

SnIdle ==
    /\ setup_complete = FALSE
    /\ created = [k \in KindSet |-> 0]
    /\ history = [k \in KindSet |-> <<>>]
    /\ tpc = [t \in Tasks |-> "idle"]
    /\ tcall = [t \in Tasks |-> NoCall]
    /\ tcur = [t \in Tasks |-> 0]
    /\ tmsg = [t \in Tasks |-> 0]
    /\ tresp = [t \in Tasks |-> <<>>]
    /\ nmsg = 0
HtIdle ==
    /\ hpc = "idle"
    /\ hbody = None
    /\ hsession = <<>>
    /\ hresponse = None
    /\ hlog = [u \in Users |-> <<>>]
PlIdle ==
    /\ ppc = "idle"
    /\ pchunks = <<>>
    /\ pidx = 0
    /\ panalysis = None
    /\ panalyses = <<>>
    /\ analysis_results = <<>>
    /\ poutcome = "none"
AnIdle ==
    /\ apc = "idle"
    /\ atext = <<>>
    /\ abase = <<>>
    /\ aresult = None
    /\ aresult_base = None
    /\ sresult = None
    /\ sresult_base = None

\* n seconds in ticks of a quarter second
Sec(n) == 4 * n

----------------------------------------------------------------------------
(* Bounds of the model *)

MaxTotal == 12       \* longest probed duration, in ticks
MaxChunk == 6        \* longest chunk_duration (and overlap), in ticks
MaxStartUtc == 1     \* supplied start_utc values are 0..MaxStartUtc
MaxClockStep == 2    \* the clock advances by 1..MaxClockStep between two calls

----------------------------------------------------------------------------
(* split_video *)

\* 0.5 s, the smallest span the loop still cuts after the first chunk
MinChunk == Sec(1) \div 2

\* start_utc_time as the caller can pass it: None (or ""), an ISO string ending
\* in 'Z', an ISO string without zone, or a string that is no ISO date.
StartArgs ==
    {[kind |-> "none", t |-> 0], [kind |-> "bad", t |-> 0]}
    \cup [kind : {"z", "naive"}, t : 0..MaxStartUtc]

\* Scenario A of the specification: 9 s of video, 5 s chunks, 1 s overlap.
ScenarioA == [total |-> Sec(9), chunk |-> Sec(5), overlap |-> Sec(1)]

Durations ==
    [total : 0..MaxTotal, chunk : 0..MaxChunk, overlap : (-1)..MaxChunk]
    \cup {ScenarioA}

SegInputs ==
    {[total |-> d.total, chunk |-> d.chunk, overlap |-> d.overlap,
      start |-> s, file_ok |-> f, probe_ok |-> p] :
        d \in Durations, s \in StartArgs, f \in BOOLEAN, p \in {TRUE}}
    \cup
    {[total |-> d.total, chunk |-> d.chunk, overlap |-> d.overlap,
      start |-> [kind |-> "z", t |-> 0], file_ok |-> TRUE, probe_ok |-> FALSE] :
        d \in {ScenarioA}}

\* datetime.isoformat() + "Z": an aware datetime prints its offset, so the
\* appended Z follows "+00:00"; a naive one prints none.
IsoZ(dt, offset) ==
    [t |-> dt.t + offset, suffix |-> IF dt.aware THEN "+00:00Z" ELSE "Z"]

\* lines 52-67: the start of the first chunk
ParseStartBad(a, now) == [t |-> now, aware |-> FALSE]
ParseStart(a, now) ==
    IF a.start.kind = "none" THEN [t |-> now, aware |-> FALSE]
    ELSE IF a.start.kind = "z" THEN [t |-> a.start.t, aware |-> TRUE]
    ELSE [t |-> a.start.t, aware |-> FALSE]

\* line 81
StepBad(a) == a.chunk
StepNone(a) == 0
Step(a) == a.chunk - a.overlap

\* line 87
CurrentChunkDuration(a, st) == Min(a.chunk, a.total - st)

\* lines 90 and 94: the two break conditions of the loop
LoopBreaksBad(a, st, c) ==
    \/ st >= a.total
    \/ CurrentChunkDuration(a, st) <= 0
LoopBreaks(a, st, c) ==
    \/ (CurrentChunkDuration(a, st) < MinChunk /\ c > 1)
    \/ st >= a.total
    \/ CurrentChunkDuration(a, st) <= 0

\* lines 97-126: the record appended for one chunk
ChunkInfo(a, dt, st, c) ==
    [chunk_path |-> c,
     start_time |-> st,
     end_time |-> st + CurrentChunkDuration(a, st),
     start_utc_time |-> IsoZ(dt, st),
     end_utc_time |-> IsoZ(dt, st + CurrentChunkDuration(a, st))]

NoDatetime == [t |-> 0, aware |-> FALSE]

\* lines 44-50: the checks made before any work
PrecheckBad(a) ==
    IF ~a.file_ok THEN "FileNotFoundError" ELSE "ok"
Precheck(a) ==
    IF ~a.file_ok THEN "FileNotFoundError"
    ELSE IF a.overlap >= a.chunk THEN "ValueError"
    ELSE "ok"

\* lines 44-84: entry of split_video up to the loop
SplitStart ==
    /\ pc = "idle"
    /\ calls' = calls + 1
    /\ chunk_info_list' = <<>>
    /\ start_time' = 0
    /\ counter' = 1
    /\ IF Precheck(args) # "ok"
       THEN /\ pc' = "done"
            /\ outcome' = Precheck(args)
            /\ UNCHANGED <<start_datetime, dir_created, probe_calls>>
       ELSE IF args.start.kind = "bad"
       THEN /\ pc' = "done"
            /\ outcome' = "ValueError"
            /\ UNCHANGED <<start_datetime, dir_created, probe_calls>>
       ELSE /\ start_datetime' = ParseStart(args, clock)
            /\ dir_created' = TRUE
            /\ probe_calls' = probe_calls + 1
            /\ IF args.probe_ok
               THEN pc' = "loop" /\ outcome' = "none"
               ELSE pc' = "done" /\ outcome' = "CalledProcessError"
    /\ UNCHANGED <<args, cut_calls, clock, first_result>>
    /\ UNCHANGED nonSegVars

\* lines 86-95, 131-132: the loop ends and the list is returned
LoopExit ==
    /\ pc = "loop"
    /\ LoopBreaks(args, start_time, counter)
    /\ pc' = "done"
    /\ outcome' = "ok"
    /\ first_result' = IF calls = 1 THEN chunk_info_list ELSE first_result
    /\ UNCHANGED <<args, start_datetime, start_time, counter, chunk_info_list,
                   dir_created, probe_calls, cut_calls, clock, calls>>
    /\ UNCHANGED nonSegVars

\* lines 97-129: one chunk is cut and appended
CutChunk ==
    /\ pc = "loop"
    /\ ~LoopBreaks(args, start_time, counter)
    /\ cut_calls' = cut_calls + 1
    /\ chunk_info_list' =
           Append(chunk_info_list, ChunkInfo(args, start_datetime, start_time, counter))
    /\ start_time' = start_time + Step(args)
    /\ counter' = counter + 1
    /\ UNCHANGED <<pc, args, start_datetime, outcome, dir_created, probe_calls,
                   clock, calls, first_result>>
    /\ UNCHANGED nonSegVars

\* line 118: ffmpeg exits non-zero, subprocess.run(check=True) raises
CutFails ==
    /\ pc = "loop"
    /\ ~LoopBreaks(args, start_time, counter)
    /\ cut_calls' = cut_calls + 1
    /\ pc' = "done"
    /\ outcome' = "CalledProcessError"
    /\ UNCHANGED <<args, start_datetime, start_time, counter, chunk_info_list,
                   dir_created, probe_calls, clock, calls, first_result>>
    /\ UNCHANGED nonSegVars

\* split_video is called again with identical arguments, later on the clock
CallAgain ==
    /\ pc = "done"
    /\ outcome = "ok"
    /\ calls = 1
    /\ \E d \in 1..MaxClockStep : clock' = clock + d
    /\ pc' = "idle"
    /\ outcome' = "none"
    /\ dir_created' = FALSE
    /\ probe_calls' = 0
    /\ cut_calls' = 0
    /\ UNCHANGED <<args, start_datetime, start_time, counter, chunk_info_list,
                   calls, first_result>>
    /\ UNCHANGED nonSegVars

EvIdle ==
    /\ epc = "idle"
    /\ store = <<>>
    /\ event_data = None
    /\ recent_events = <<>>
    /\ combined_data = <<>>
    /\ analysis = None
    /\ response = None
    /\ latest_frames = <<>>
    /\ prediction = None

InitSeg ==
    /\ pc = "idle"
    /\ args \in SegInputs
    /\ start_datetime = NoDatetime
    /\ start_time = 0
    /\ counter = 1
    /\ chunk_info_list = <<>>
    /\ outcome = "none"
    /\ dir_created = FALSE
    /\ probe_calls = 0
    /\ cut_calls = 0
    /\ clock = 0
    /\ calls = 0
    /\ first_result = <<>>
    /\ EvIdle /\ DpIdle /\ RtIdle /\ AnIdle /\ PlIdle /\ SnIdle /\ HtIdle

NextSeg ==
    \/ SplitStart
    \/ LoopExit
    \/ CutChunk
    \/ CutFails
    \/ CallAgain

SpecSeg == InitSeg /\ [][NextSeg]_vars

\* The loop of lines 86-129 is sequential code: once entered it keeps taking
\* its next step.
SpecSegFair == SpecSeg /\ WF_vars(LoopExit) /\ WF_vars(CutChunk \/ CutFails)

----------------------------------------------------------------------------
(* The event flow (drishti_agent.py) and the predictor tool (predictor.py) *)

MaxStore == 5        \* most documents the 'events' collection holds

\* get_recent_events(20), drishti_agent.py line 424
FetchLimit == 20

\* "the latest 5 frames", predictor.py line 34
WindowSize == 5

\* The analyzer's assessment of one chunk, as it is stored and passed around.
\* complete = every field of EventData other than estimated_count is present
\* with its type; estimated_count is <<n>> for a number n and <<>> for null.
Assessment(d, f, fire, lvl, cnt, ok) ==
    [crowd_density |-> d, crowd_flow |-> f, fire_smoke_detected |-> fire,
     safety_level |-> lvl, estimated_count |-> cnt, complete |-> ok]

Quiet == Assessment("low", "unrestricted", "no", "safe", <<10>>, TRUE)
Burning == Assessment("low", "unrestricted", "yes", "safe", <<10>>, TRUE)
Crowded == Assessment("high", "moderately_restricted", "no", "high_risk", <<200>>, TRUE)
Crush == Assessment("severe", "severely_restricted", "no", "critical", <<500>>, TRUE)
Uncounted == Assessment("high", "moderately_restricted", "no", "high_risk", <<>>, TRUE)
Partial == Assessment("low", "unrestricted", "no", "safe", <<10>>, FALSE)

\* The documents the collection can hold: video_splitter.py stores whatever
\* the analyzer returned that carries needs_security_intervention (lines
\* 170-187), so a document can lack other fields.
StoredKinds == {Quiet, Burning, Partial}
EventKinds == {Quiet, Burning, Crowded, Crush, Uncounted, Partial}

Stamp(a, t) ==
    [end_utc_time |-> t, crowd_density |-> a.crowd_density,
     crowd_flow |-> a.crowd_flow, fire_smoke_detected |-> a.fire_smoke_detected,
     safety_level |-> a.safety_level, estimated_count |-> a.estimated_count,
     complete |-> a.complete]

\* The final response of the qualitative agent: a QualitativeAnalysis
\* (drishti_agent.py lines 38-44) chosen by the language model, or no final
\* response at all (process_message line 395).
UnitNames == {"Fire station unit", "Police station unit", "Medical unit", "None"}
NoResponse == [text |-> "No response received"]
Analyses ==
    [crowd_density_increase : BOOLEAN, restricted_movements : BOOLEAN,
     fire_smoke_detected : BOOLEAN, unit_to_dispatch : UnitNames]
Replies == Analyses \cup {NoResponse}

\* EventData(**event_data), drishti_agent.py lines 23-36 and 411-415:
\* every field is required and estimated_count must be an int.
EventDataValid(e) == e.complete /\ Len(e.estimated_count) = 1

\* get_recent_events, lines 77-93: the newest `limit` documents, newest first;
\* [] when the query raises.
Take(seq, n) == SubSeq(seq, 1, Min(n, Len(seq)))
GetRecentEvents(docs, limit, ok) == IF ok THEN Take(docs, limit) ELSE <<>>

\* line 430
Combine(e, recent) == <<e>> \o recent

\* predictor.py lines 34-42
FetchLatest5Frames == <<>>

\* predictor.py lines 44-69
PredictNextFrameBad(frames) ==
    [crowd_density_increase |-> FALSE, restricted_movements |-> FALSE,
     fire_smoke_detected |-> FALSE, unit_to_dispatch |-> "Police station unit"]
PredictNextFrame(frames) ==
    [crowd_density_increase |-> FALSE, restricted_movements |-> FALSE,
     fire_smoke_detected |-> FALSE, unit_to_dispatch |-> "None"]

\* The events collection as get_recent_events reads it (lines 81-82): ordered
\* by end_utc_time, newest first.  Documents with the same end_utc_time come
\* in the order of their ids, which are random (uuid4, video_splitter.py line
\* 183), so a new document can land before or after those it ties with.
\* keys[i] is the end_utc_time of docs[i], k that of the new document d.
Stored(docs, keys, d, k) ==
    {SubSeq(docs, 1, p - 1) \o <<d>> \o SubSeq(docs, p, Len(docs)) :
        p \in {q \in 1..(Len(docs) + 1) :
                  /\ \A i \in 1..(q - 1) : keys[i] >= k
                  /\ \A i \in q..Len(docs) : keys[i] <= k}}

\* video_splitter.py lines 183-187: the pipeline stores the assessment of the
\* next chunk.  A chunk ends later than the one before, or, when it is the
\* short last window of a video, at the same instant (both end where the
\* video ends, split_video line 87); no three chunks end together.
\* handle_event reads the collection once, at its fetch, so a write during a
\* call is a write before or after it.
StoreEvent ==
    /\ epc = "idle"
    /\ Len(store) < MaxStore
    /\ \E a \in StoredKinds :
         \E t \in {k \in 1..(Len(store) + 1) :
                     \/ store = <<>> /\ k = 1
                     \/ store # <<>> /\ k = store[1].end_utc_time + 1
                     \/ /\ store # <<>> /\ k = store[1].end_utc_time
                        /\ (Len(store) >= 2 => store[2].end_utc_time < k)} :
            store' \in Stored(store, [i \in 1..Len(store) |-> store[i].end_utc_time],
                              Stamp(a, t), t)
    /\ UNCHANGED <<epc, event_data, recent_events, combined_data, analysis, response,
                   latest_frames, prediction>>
    /\ UNCHANGED nonEvVars

\* handle_event lines 406-419: the event is validated
HandleEvent ==
    /\ epc = "idle"
    /\ \E a \in EventKinds :
         LET e == Stamp(a, Len(store) + 1) IN
           /\ event_data' = e
           /\ IF EventDataValid(e)
              THEN epc' = "validated" /\ response' = None
              ELSE epc' = "done" /\ response' = [text |-> "Error: Invalid event data structure"]
    /\ recent_events' = <<>>
    /\ combined_data' = <<>>
    /\ analysis' = None
    /\ UNCHANGED <<store, latest_frames, prediction>>
    /\ UNCHANGED nonEvVars

\* handle_event lines 421-430: the history is fetched and put behind the event
FetchRecent ==
    /\ epc = "validated"
    /\ \E ok \in BOOLEAN :
         /\ recent_events' = GetRecentEvents(store, FetchLimit, ok)
         /\ combined_data' = Combine(event_data, recent_events')
    /\ epc' = "fetched"
    /\ UNCHANGED <<store, event_data, analysis, response, latest_frames, prediction>>
    /\ UNCHANGED nonEvVars

\* handle_event lines 432-437 with process_message lines 383-404: the combined
\* records go to the qualitative agent and its final response is returned
Analyse ==
    /\ epc = "fetched"
    /\ \E r \in Replies :
         /\ analysis' = r
         /\ response' = [text |-> "Event Analysis: ", analysis |-> r]
    /\ epc' = "done"
    /\ UNCHANGED <<store, event_data, recent_events, combined_data,
                   latest_frames, prediction>>
    /\ UNCHANGED nonEvVars

\* handle_event has returned; the next event can come
EventReturn ==
    /\ epc = "done"
    /\ epc' = "idle"
    /\ event_data' = None
    /\ recent_events' = <<>>
    /\ combined_data' = <<>>
    /\ analysis' = None
    /\ response' = None
    /\ UNCHANGED <<store, latest_frames, prediction>>
    /\ UNCHANGED nonEvVars

\* predictor.py lines 59-69: the agent calls its tool
PredictTool ==
    /\ epc = "idle"
    /\ latest_frames' = FetchLatest5Frames
    /\ prediction' = PredictNextFrame(latest_frames')
    /\ UNCHANGED <<epc, store, event_data, recent_events, combined_data, analysis,
                   response>>
    /\ UNCHANGED nonEvVars

SegIdle ==
    /\ pc = "idle"
    /\ args = [total |-> 0, chunk |-> 0, overlap |-> 0,
               start |-> [kind |-> "none", t |-> 0], file_ok |-> FALSE,
               probe_ok |-> FALSE]
    /\ start_datetime = NoDatetime
    /\ start_time = 0
    /\ counter = 1
    /\ chunk_info_list = <<>>
    /\ outcome = "none"
    /\ dir_created = FALSE
    /\ probe_calls = 0
    /\ cut_calls = 0
    /\ clock = 0
    /\ calls = 0
    /\ first_result = <<>>

InitEvent == SegIdle /\ EvIdle /\ DpIdle /\ RtIdle /\ AnIdle /\ PlIdle /\ SnIdle /\ HtIdle

NextEvent ==
    \/ StoreEvent
    \/ HandleEvent
    \/ FetchRecent
    \/ Analyse
    \/ EventReturn
    \/ PredictTool

SpecEvent == InitEvent /\ [][NextEvent]_vars

----------------------------------------------------------------------------
(* Properties of split_video *)

Returned == pc = "done" /\ outcome = "ok"
NWindows == Len(chunk_info_list)
WinLen(i) == chunk_info_list[i].end_time - chunk_info_list[i].start_time
LastEnd == chunk_info_list[NWindows].end_time
ValidOverlap == 0 <= args.overlap /\ args.overlap < args.chunk

\* The returned windows start at 0 and leave no gap between neighbours.
StartsAtZeroNoGaps ==
    /\ NWindows >= 1
    /\ chunk_info_list[1].start_time = 0
    /\ \A i \in 2..NWindows :
           chunk_info_list[i].start_time <= chunk_info_list[i - 1].end_time

\* C1 as stated: for total_duration > 0 and 0 <= overlap < chunk_duration the
\* returned windows start at 0, leave no gap, and the last one ends exactly at
\* total_duration, also when overlap and the remaining tail are below 0.5 s.
C1_CoverExact ==
    (Returned /\ args.total > 0 /\ ValidOverlap)
        => (StartsAtZeroNoGaps /\ LastEnd = args.total)

\* C1 amended: the windows start at 0 and leave no gap; the last one ends
\* exactly at total_duration whenever overlap >= 0.5 s, and otherwise it ends at
\* total_duration or is a full chunk after which the loop's 0.5 s cut-off
\* applied: min(chunk_duration, uncovered tail + overlap) < 0.5 s.
C1_CoverUpToTail ==
    (Returned /\ args.total > 0 /\ ValidOverlap)
        => /\ StartsAtZeroNoGaps
           /\ LastEnd <= args.total
           /\ (args.overlap >= MinChunk => LastEnd = args.total)
           /\ (LastEnd < args.total
                  => /\ WinLen(NWindows) = args.chunk
                     /\ Min(args.chunk, (args.total - LastEnd) + args.overlap) < MinChunk)

\* C1 witness: a call that returned two or more windows and dropped a tail.
C1_Witness ==
    /\ Returned /\ args.total > 0 /\ ValidOverlap
    /\ NWindows >= 2
    /\ LastEnd < args.total

\* C2: in the returned list every pair of consecutive windows other than the
\* last pair overlaps by exactly `overlap`.
C2_ExactOverlap ==
    (Returned /\ args.total > 0 /\ ValidOverlap)
        => \A i \in 1..(NWindows - 2) :
               chunk_info_list[i].end_time - chunk_info_list[i + 1].start_time
                   = args.overlap

\* C3: total_duration = 9 s, chunk_duration = 5 s, overlap = 1 s and
\* start_utc = T return exactly the windows [0,5) and [4,9), the second with
\* UTC bounds T+4 s and T+9 s.
C3_ScenarioA ==
    (/\ Returned
     /\ args.total = ScenarioA.total
     /\ args.chunk = ScenarioA.chunk
     /\ args.overlap = ScenarioA.overlap
     /\ args.start.kind \in {"z", "naive"})
        => /\ NWindows = 2
           /\ chunk_info_list[1].start_time = 0
           /\ chunk_info_list[1].end_time = Sec(5)
           /\ chunk_info_list[2].start_time = Sec(4)
           /\ chunk_info_list[2].end_time = Sec(9)
           /\ chunk_info_list[2].start_utc_time.t = args.start.t + Sec(4)
           /\ chunk_info_list[2].end_utc_time.t = args.start.t + Sec(9)

\* C4: a second call with the same arguments and a supplied start_utc, made
\* later on the clock, returns the same list as the first call.
C4_Deterministic ==
    (Returned /\ calls = 2 /\ args.start.kind \in {"z", "naive"})
        => chunk_info_list = first_result

\* C4 witness: the second of two calls with a supplied start_utc returned
\* several windows, and the clock had moved on in between.
C4_Witness ==
    /\ Returned /\ calls = 2 /\ args.start.kind \in {"z", "naive"}
    /\ clock > 0
    /\ NWindows >= 2

NoWorkDone ==
    /\ chunk_info_list = <<>>
    /\ ~dir_created
    /\ probe_calls = 0
    /\ cut_calls = 0

\* C5 as stated: with overlap >= chunk_duration the call fails with the
\* configuration error (ValueError) and has done no work.
C5_ConfigError ==
    (calls >= 1 /\ args.overlap >= args.chunk)
        => (pc = "done" /\ outcome = "ValueError" /\ NoWorkDone)

\* C5 amended: with overlap >= chunk_duration the call fails before any work:
\* with ValueError when the video file exists, with FileNotFoundError when it
\* does not (the file is checked first); no window, directory or tool call.
C5_FailsBeforeWork ==
    (calls >= 1 /\ args.overlap >= args.chunk)
        => /\ pc = "done"
           /\ outcome = (IF args.file_ok THEN "ValueError" ELSE "FileNotFoundError")
           /\ NoWorkDone

\* C5 witness: a call on an existing file with overlap >= chunk_duration has
\* been made.
C5_Witness ==
    /\ calls >= 1 /\ args.overlap >= args.chunk /\ args.file_ok
    /\ args.chunk > 0 /\ args.total > 0
    /\ outcome = "ValueError"

\* C6: every window after the first is at least 0.5 s long, and a first window
\* shorter than 0.5 s is the only one; so a remaining span below 0.5 s after an
\* emitted window yields no further window.
C6_MinViable ==
    /\ \A i \in 2..NWindows : WinLen(i) >= MinChunk
    /\ (NWindows >= 1 /\ WinLen(1) < MinChunk) => NWindows = 1

\* C6 witness: the loop ended after at least one window with a positive
\* remaining span below 0.5 s that was not cut.
C6_Witness ==
    /\ Returned /\ NWindows >= 1
    /\ args.total - start_time > 0
    /\ args.total - start_time < MinChunk

----------------------------------------------------------------------------
(* Properties of the predictor and of the event flow *)

Rank(d) ==
    IF d = "low" THEN 0 ELSE IF d = "medium" THEN 1 ELSE IF d = "high" THEN 2 ELSE 3

Quiescent ==
    [crowd_density_increase |-> FALSE, restricted_movements |-> FALSE,
     fire_smoke_detected |-> FALSE, unit_to_dispatch |-> "None"]

\* The qualitative agent answered with a prediction over the records in
\* combined_data.
Predicted == epc = "done" /\ combined_data # <<>> /\ analysis # NoResponse

Indices == 1..Len(combined_data)
Newest == CHOOSE i \in Indices :
    \A j \in Indices : combined_data[j].end_utc_time <= combined_data[i].end_utc_time
Oldest == CHOOSE i \in Indices :
    \A j \in Indices : combined_data[i].end_utc_time <= combined_data[j].end_utc_time
AnyFire == \E i \in Indices : combined_data[i].fire_smoke_detected = "yes"
MedicalRule ==
    /\ combined_data[Newest].safety_level = "critical"
    /\ combined_data[Newest].crowd_flow = "severely_restricted"
DensityRises ==
    Rank(combined_data[Newest].crowd_density) > Rank(combined_data[Oldest].crowd_density)

\* C7: the predictor tool, called with an empty history, returns the quiescent
\* prediction (unit none, all three booleans false).
C7_EmptyQuiescent ==
    (prediction # None /\ latest_frames = <<>>) => prediction = Quiescent

\* C7 witness: the tool has been called and its history was empty.
C7_Witness == prediction # None /\ latest_frames = <<>>

\* C8: whenever a record handed to the predictor has fire_smoke_detected = yes,
\* the prediction recommends the fire unit and reports fire or smoke.
C8_FireWins ==
    (Predicted /\ AnyFire)
        => /\ analysis.unit_to_dispatch = "Fire station unit"
           /\ analysis.fire_smoke_detected

\* C9: with no fire/smoke in any record and the medical rule not applying, a
\* newest density above the oldest with a restricted newest flow gives police
\* and density_increasing; density_increasing is true exactly when the newest
\* density ranks above the oldest.
C9_PoliceOnRisingDensity ==
    Predicted
        => /\ analysis.crowd_density_increase = DensityRises
           /\ (/\ ~AnyFire
               /\ ~MedicalRule
               /\ DensityRises
               /\ combined_data[Newest].crowd_flow
                      \in {"moderately_restricted", "severely_restricted"})
                  => analysis.unit_to_dispatch = "Police station unit"

\* C10: the event flow never hands more than the 5 newest records to the
\* predictor.
C10_AtMostFive == Len(combined_data) <= WindowSize

\* ---------------------------------------------------------------------------
\* Validation of the records that reach the analysis
\* ---------------------------------------------------------------------------

\* The qualitative agent has been run on combined_data.
Analysed == epc = "done" /\ combined_data # <<>> /\ analysis # None

\* C19: no record missing a required field reaches the analysis: a malformed
\* current event is rejected without analysis, and a malformed history record
\* is not among the records that are analysed.
C19_OnlyValidAnalysed ==
    /\ (epc = "done" /\ event_data # None /\ ~EventDataValid(event_data))
           => (analysis = None /\ combined_data = <<>>)
    /\ Analysed => \A i \in 1..Len(combined_data) : EventDataValid(combined_data[i])

\* ---------------------------------------------------------------------------
\* dispatch_unit and the dispatcher topic (drishti_agent.py lines 95-188)
\* ---------------------------------------------------------------------------

\* Calls of dispatch_unit in one behaviour.
MaxDispatch == 2

\* Arguments the language model can pass to dispatch_unit: three strings,
\* none of them checked.
Units == {"police", "fire", "none"}
Locations == {"Platform 3", "platform 3"}
Priorities == {"low", "high", "urgent"}

\* DispatchInput line 59: "Priority level: high, medium, low"
ValidPriorities == {"low", "medium", "high"}

\* Minutes between two calls: the next minute, or a quarter of an hour later.
Minutes(n) == n
DispatchGaps == {Minutes(1), Minutes(15)}

\* What happens to one call from outside: the Pub/Sub client cannot be built
\* (PubSubService() at line 152 is outside every try), the publish is
\* acknowledged, or anything inside publish_dispatch's try raises.
Outcomes == {"client_error", "acked", "failed"}

\* lines 154-160
DispatchData(unit_type, location, priority, t) ==
    [unit_type |-> unit_type, location |-> location, priority |-> priority,
     timestamp |-> t, status |-> "dispatched"]

\* publish_dispatch, lines 101-114: one publisher.publish, one future.result();
\* True with the message on the topic, False on any exception.
PublishDispatch(topic, message_data, acked) ==
    [topic |-> IF acked THEN Append(topic, message_data) ELSE topic,
     attempts |-> 1,
     success |-> acked]

\* lines 164-167
DispatchUnitResultBad(unit_type, location, success) ==
    [text |-> "Successfully dispatched", unit_type |-> unit_type, location |-> location]
DispatchUnitResult(unit_type, location, success) ==
    IF success
    THEN [text |-> "Successfully dispatched", unit_type |-> unit_type, location |-> location]
    ELSE [text |-> "Failed to dispatch", unit_type |-> unit_type]

\* The exception of line 152 leaves dispatch_unit.
Raised == [text |-> "raised"]

\* check_recent_dispatches, lines 169-188: a fixed table, whatever has been
\* dispatched; the key is lower-cased, None gives the whole table.
RecentDispatchTable ==
    [fire |-> <<>>,
     police |-> <<[location |-> "Platform A", time |-> "2024-01-15T10:30:00"]>>,
     medical |-> <<>>]
\* unit_type.lower() == key, line 187, for a key written in the letters a-z.
\* A string is the sequence of the code points of its characters (<<>> for
\* None and for ""), so that every string the language model can write is an
\* argument.  lower() works character by character; the characters it turns
\* into a letter of a-z are that letter (left as it is), its capital (32
\* below it) and, for k, the Kelvin sign U+212A.  Every other character gives
\* something else (U+0130 gives i followed by U+0307; a capital sigma gives
\* one of the two small sigmas, whatever surrounds it).
LowerIs(unit_type, key) ==
    /\ Len(unit_type) = Len(key)
    /\ \A i \in 1..Len(key) :
          \/ unit_type[i] = key[i]
          \/ unit_type[i] = key[i] - 32
          \/ key[i] = 107 /\ unit_type[i] = 8490
CheckRecentDispatches(unit_type) ==
    IF unit_type = <<>> THEN <<RecentDispatchTable>>
    ELSE CASE LowerIs(unit_type, <<102, 105, 114, 101>>)                \* fire
                -> RecentDispatchTable.fire
           [] LowerIs(unit_type, <<112, 111, 108, 105, 99, 101>>)       \* police
                -> RecentDispatchTable.police
           [] LowerIs(unit_type, <<109, 101, 100, 105, 99, 97, 108>>)   \* medical
                -> RecentDispatchTable.medical
           [] OTHER -> <<>>

\* dispatch_unit, lines 150-167.  The coroutine never yields to the event
\* loop (publish_dispatch blocks in future.result()), so a call is one step.
DispatchUnit(unit_type, location, priority, gap) ==
    /\ Len(decisions) < MaxDispatch
    /\ \E out \in Outcomes :
         LET t == dnow + gap
             data == DispatchData(unit_type, location, priority, t)
             pub == PublishDispatch(published, data, out = "acked")
         IN /\ dnow' = t
            /\ IF out = "client_error"
               THEN /\ published' = published
                    /\ decisions' = Append(decisions,
                          [unit_type |-> unit_type, location |-> location,
                           priority |-> priority, timestamp |-> t, attempts |-> 0,
                           outcome |-> "raised", result |-> Raised])
               ELSE /\ published' = pub.topic
                    /\ decisions' = Append(decisions,
                          [unit_type |-> unit_type, location |-> location,
                           priority |-> priority, timestamp |-> t,
                           attempts |-> pub.attempts,
                           outcome |-> IF pub.success THEN "published" ELSE "publish_failed",
                           result |-> DispatchUnitResult(unit_type, location, pub.success)])

\* The dispatch agent, or any caller, calls the tool.
CallDispatchUnit ==
    /\ \E u \in Units, l \in Locations, p \in Priorities, gap \in DispatchGaps :
         DispatchUnit(u, l, p, gap)
    /\ UNCHANGED <<segVars, evVars, rtVars, anVars, plVars, snVars, htVars>>

InitDispatch == SegIdle /\ EvIdle /\ DpIdle /\ RtIdle /\ AnIdle /\ PlIdle /\ SnIdle /\ HtIdle

NextDispatch == CallDispatchUnit

SpecDispatch == InitDispatch /\ [][NextDispatch]_vars

\* ---------------------------------------------------------------------------
\* Properties of the dispatch path
\* ---------------------------------------------------------------------------

\* The cool-down window of the deduplication policy.
CoolDown == Minutes(10)

\* Locations compared without regard to case.
Lower(location) == IF location = "Platform 3" THEN "platform 3" ELSE location
SamePlace(a, b) ==
    a.unit_type = b.unit_type /\ Lower(a.location) = Lower(b.location)
WithinCoolDown(earlier, later) == later.timestamp - earlier.timestamp <= CoolDown

Calls == 1..Len(decisions)
Sent == 1..Len(published)

\* C11: a dispatch request is suppressed as a duplicate, and nothing is
\* published for it, whenever a dispatch of the same unit type to the same
\* location (case-insensitive) was issued within the cool-down before it; of
\* two police calls for "Platform 3" a minute apart the second is suppressed.
C11_DuplicateSuppressed ==
    \A i \in Calls, j \in Calls :
        (i < j /\ decisions[i].outcome = "published"
               /\ SamePlace(decisions[i], decisions[j])
               /\ WithinCoolDown(decisions[i], decisions[j]))
            => (decisions[j].outcome = "duplicate" /\ decisions[j].attempts = 0)

\* C12: at most one message is published for the same (unit_type, location)
\* pair within the cool-down window.
C12_OnePublishPerPlace ==
    \A i \in Sent, j \in Sent :
        (i < j /\ SamePlace(published[i], published[j]))
            => ~WithinCoolDown(published[i], published[j])

\* C13: a request whose unit type is none is always suppressed with reason
\* no_unit_required and never puts a message on the topic.
C13_NoneNeverPublished ==
    /\ \A i \in Calls :
          decisions[i].unit_type = "none"
              => (decisions[i].outcome = "no_unit_required" /\ decisions[i].attempts = 0)
    /\ \A k \in Sent : published[k].unit_type # "none"

\* C14: the priority of a dispatch is derived from the trigger, not taken
\* from the caller: a fire unit is always dispatched with priority high, and
\* every priority is one of high, medium, low.
C14_PriorityFromTrigger ==
    \A i \in Calls :
        /\ decisions[i].unit_type = "fire" => decisions[i].priority = "high"
        /\ decisions[i].priority \in ValidPriorities

\* C15: a dispatch call makes at most one publish attempt; when the publish
\* fails the call returns the failure outcome, neither success nor an
\* exception, and nothing is published again for it.
C15_OneAttemptFailureReported ==
    /\ \A i \in Calls :
          /\ decisions[i].attempts <= 1
          /\ decisions[i].outcome = "publish_failed"
                => /\ decisions[i].attempts = 1
                   /\ decisions[i].result.text = "Failed to dispatch"
          /\ decisions[i].result.text = "Successfully dispatched"
                => decisions[i].outcome = "published"
    /\ Len(published) = Cardinality({i \in Calls : decisions[i].outcome = "published"})
    /\ \A k \in Sent :
          \E i \in Calls :
              /\ decisions[i].outcome = "published"
              /\ published[k] = DispatchData(decisions[i].unit_type, decisions[i].location,
                                             decisions[i].priority, decisions[i].timestamp)

\* A publish has failed and, after it, another call has published.
C15_Witness ==
    \E i \in Calls, j \in Calls :
        /\ i < j
        /\ decisions[i].outcome = "publish_failed"
        /\ decisions[j].outcome = "published"

\* ---------------------------------------------------------------------------
\* Message handling: SecurityMultiAgentSystem and its agents
\* (drishti_agent.py lines 192-463)
\* ---------------------------------------------------------------------------

\* Model calls (tool calls and transfers) the runner makes for one message.
MaxSteps == 2

\* Calls of dispatch_unit the agents make in one behaviour.
MaxAgentDispatch == 1

Orchestrator == "security_orchestrator"
ChatAgent == "security_chat_agent"
DispatchAgent == "dispatch_agent"
QualitativeAgent == "qualitative_summary_agent"

\* lines 329-333: the orchestrator's sub-agents
SubAgents == {QualitativeAgent, ChatAgent, DispatchAgent}

\* self.runners, lines 343-369: the agent each runner starts with
Runners ==
    [orchestrator |-> Orchestrator, qualitative |-> QualitativeAgent,
     security_chat |-> ChatAgent, dispatch |-> DispatchAgent]

\* tools= of the four agent definitions (lines 192-312)
Tools(agent) ==
    CASE agent = Orchestrator -> {"fetch_firestore_events"}
      [] agent = ChatAgent -> {"check_recent_dispatches", "find_hospitals"}
      [] agent = DispatchAgent -> {"dispatch_unit", "check_recent_dispatches"}
      [] OTHER -> {}

\* disallow_transfer_to_parent / disallow_transfer_to_peers, lines 218-219:
\* set for the qualitative agent only.  An agent can hand the conversation to
\* its sub-agents and, unless disallowed, to its parent and its peers.
DisallowTransfer(agent) == agent = QualitativeAgent
TransferTargets(agent) ==
    IF agent = Orchestrator THEN SubAgents
    ELSE IF DisallowTransfer(agent) THEN {}
    ELSE {Orchestrator} \cup (SubAgents \ {agent})

\* The payloads: which keys the JSON text carries (kind) and the two values
\* the flows look at.  "" stands for a key that is absent.
ActionTypes == {"report", "query", "help"}
GivenActionTypes == {"report", "help", "shout"}
Payload(kind, action_type, priority) ==
    [kind |-> kind, action_type |-> action_type, priority |-> priority]
ChatInput(action_type) == Payload("chat", action_type, "")
DispatchInput(priority) == Payload("dispatch", "", priority)
Messages ==
    {ChatInput(a) : a \in GivenActionTypes}
        \cup {DispatchInput(p) : p \in Priorities}
        \cup {Payload("event", "", ""), Payload("other", "", "")}

ToolCall(agent, tool, priority) == [agent |-> agent, tool |-> tool, priority |-> priority]

\* process_message lines 383-391: the runner of agent_type is given the text
Start(entry, message, agent_type) ==
    /\ rpc = "idle"
    /\ rpc' = "running"
    /\ rmsg' = [entry |-> entry, kind |-> message.kind,
                action_type |-> message.action_type, priority |-> message.priority]
    /\ ragent' = Runners[agent_type]
    /\ rflows' = <<Runners[agent_type]>>
    /\ rtools' = {}
    /\ rsteps' = 0
    /\ rresponse' = "none"
    /\ UNCHANGED <<segVars, evVars, dpVars, anVars, plVars, snVars, htVars>>

\* process_message called with any text and any agent_type that has a runner
\* (line 388; "orchestrator" is the default)
ProcessMessage ==
    \E m \in Messages, agent_type \in DOMAIN Runners : Start("process_message", m, agent_type)

\* handle_security_chat, lines 439-450: action_type is not looked at
HandleSecurityChat ==
    \E a \in GivenActionTypes : Start("handle_security_chat", ChatInput(a), "security_chat")

\* handle_dispatch, lines 452-463: priority is not looked at
HandleDispatch ==
    \E p \in Priorities : Start("handle_dispatch", DispatchInput(p), "dispatch")

\* The running agent calls one of its tools other than dispatch_unit; none of
\* them changes anything (lines 135-148, 169-188).
AgentCallsTool ==
    /\ rpc = "running"
    /\ rsteps < MaxSteps
    /\ \E tool \in Tools(ragent) \ {"dispatch_unit"} :
         rtools' = rtools \cup {ToolCall(ragent, tool, "")}
    /\ rsteps' = rsteps + 1
    /\ UNCHANGED <<rpc, rmsg, ragent, rflows, rresponse>>
    /\ UNCHANGED <<segVars, evVars, dpVars, anVars, plVars, snVars, htVars>>

\* The running agent calls dispatch_unit, a minute after the call before; the
\* language model chooses the three arguments it passes (two units and
\* places stand for the strings it can write, with every priority).
AgentCallsDispatchUnit ==
    /\ rpc = "running"
    /\ rsteps < MaxSteps
    /\ "dispatch_unit" \in Tools(ragent)
    /\ Len(decisions) < MaxAgentDispatch
    /\ \E target \in {<<"police", "Platform 3">>, <<"fire", "platform 3">>}, p \in Priorities :
         /\ DispatchUnit(target[1], target[2], p, Minutes(1))
         /\ rtools' = rtools \cup {ToolCall(ragent, "dispatch_unit", p)}
    /\ rsteps' = rsteps + 1
    /\ UNCHANGED <<rpc, rmsg, ragent, rflows, rresponse>>
    /\ UNCHANGED <<segVars, evVars, anVars, plVars, snVars, htVars>>

\* The running agent hands the conversation to another agent.
AgentTransfers ==
    /\ rpc = "running"
    /\ rsteps < MaxSteps
    /\ \E target \in TransferTargets(ragent) :
         /\ ragent' = target
         /\ rflows' = Append(rflows, target)
    /\ rsteps' = rsteps + 1
    /\ UNCHANGED <<rpc, rmsg, rtools, rresponse>>
    /\ UNCHANGED <<segVars, evVars, dpVars, anVars, plVars, snVars, htVars>>

\* process_message lines 395-404: the run ends, with the text of the last
\* final response or without one.
RunEnds ==
    /\ rpc = "running"
    /\ rpc' = "done"
    /\ \E r \in {"final response", "No response received"} : rresponse' = r
    /\ UNCHANGED <<rmsg, ragent, rflows, rtools, rsteps>>
    /\ UNCHANGED <<segVars, evVars, dpVars, anVars, plVars, snVars, htVars>>

\* The caller has the response; the next message can come.
MessageReturn ==
    /\ rpc = "done"
    /\ rpc' = "idle"
    /\ rmsg' = None
    /\ ragent' = "none"
    /\ rflows' = <<>>
    /\ rtools' = {}
    /\ rsteps' = 0
    /\ rresponse' = "none"
    /\ UNCHANGED <<segVars, evVars, dpVars, anVars, plVars, snVars, htVars>>

InitRouter == SegIdle /\ EvIdle /\ DpIdle /\ RtIdle /\ AnIdle /\ PlIdle /\ SnIdle /\ HtIdle

NextRouter ==
    \/ ProcessMessage
    \/ HandleSecurityChat
    \/ HandleDispatch
    \/ AgentCallsTool
    \/ AgentCallsDispatchUnit
    \/ AgentTransfers
    \/ RunEnds
    \/ MessageReturn

SpecRouter == InitRouter /\ [][NextRouter]_vars

\* The flow a payload belongs to by its shape.
Classify(m) ==
    CASE m.kind = "event" -> QualitativeAgent
      [] m.kind = "chat" /\ m.action_type \in ActionTypes -> ChatAgent
      [] m.kind = "dispatch" -> DispatchAgent
      [] OTHER -> "unroutable"

\* The flows that have handled the payload in hand.
Routed == {rflows[i] : i \in 1..Len(rflows)} \ {Orchestrator}

\* C16: every payload of one of the three shapes is handled by exactly one
\* flow, the one of its shape, and a payload of no shape is handed to no flow.
C16_TotalClassification ==
    rpc = "done"
        => IF Classify(rmsg) = "unroutable"
           THEN Routed = {}
           ELSE Routed = {Classify(rmsg)}

ChatHandled == rpc = "done" /\ rmsg.entry = "handle_security_chat"
ToolsCalled(agent) == {c.tool : c \in {d \in rtools : d.agent = agent}}

\* C17: a help message is handled by the chat flow, which calls the
\* hospital lookup, and the chat flow never calls dispatch_unit itself.
C17_HelpDelegates ==
    /\ (ChatHandled /\ rmsg.action_type = "help")
          => (rflows[1] = ChatAgent /\ "find_hospitals" \in ToolsCalled(ChatAgent))
    /\ "dispatch_unit" \notin ToolsCalled(ChatAgent)

\* C18: a dispatch request whose priority is not one of low, medium, high
\* never reaches dispatch_unit and never causes a publish.
C18_PriorityValidated ==
    (rpc # "idle" /\ rmsg.kind = "dispatch" /\ rmsg.priority \notin ValidPriorities)
        => "dispatch_unit" \notin {c.tool : c \in rtools}

\* ---------------------------------------------------------------------------
\* The analyzers' handling of the model's response text
\* (video_analyzer.py lines 52-64, simple_video_analyzer.py lines 112-160)
\* ---------------------------------------------------------------------------

\* Longest response text that is not a fenced object, in tokens.
MaxText == 4

\* A response text is a sequence of tokens: the two braces, a member of an
\* object ("k"), a member whose string value holds a fence mark ("kf"), prose
\* ("t"), the fence mark of three backquotes ("fence"), the word json, and a
\* line break ("nl").
\* "ke" is "kf" with the fence mark cut out of its value.
Tokens == {"{", "}", "k", "kf", "t", "fence", "json", "nl"}
Texts == UNION {[1..n -> Tokens] : n \in 0..MaxText}

RECURSIVE Without(_, _)
Without(text, tok) ==
    IF text = <<>> THEN <<>>
    ELSE IF Head(text) = tok THEN Without(Tail(text), tok)
    ELSE <<Head(text)>> \o Without(Tail(text), tok)

\* The nesting depth after each token of an object text: never back to 0
\* before the last token, 0 at the last.
RECURSIVE Depth(_, _)
Depth(text, n) ==
    IF n = 0 THEN 0
    ELSE Depth(text, n - 1)
         + (IF text[n] = "{" THEN 1 ELSE IF text[n] = "}" THEN 0 - 1 ELSE 0)

\* json.loads accepts the text: white space aside, one object and nothing
\* else, holding members and objects only.
JsonValid(text) ==
    LET w == Without(text, "nl") IN
      /\ Len(w) >= 2
      /\ w[1] = "{"
      /\ w[Len(w)] = "}"
      /\ \A n \in 1..Len(w) : w[n] \in {"{", "}", "k", "kf", "ke"}
      /\ \A n \in 1..(Len(w) - 1) : Depth(w, n) >= 1
      /\ Depth(w, Len(w)) = 0

\* json.loads: the value does not keep the white space of the text.
JsonLoads(text) == Without(text, "nl")

Objects == {t \in Texts : JsonValid(t)}

\* The object as the model wraps it.
Fences == {"json_fence", "plain_fence"}
Wrap(object, fence) ==
    IF fence = "json_fence"
    THEN <<"fence", "json", "nl">> \o object \o <<"nl", "fence">>
    ELSE <<"fence", "nl">> \o object \o <<"nl", "fence">>

\* The response texts: any short text, and every object in either fence; base
\* is the bare object of a fenced one and the text itself otherwise.
AnalyzerInputs ==
    {[text |-> t, base |-> t] : t \in Texts}
        \cup {[text |-> Wrap(b, f), base |-> b] : b \in Objects, f \in Fences}

NoMatch == <<>>

\* re.search with re.DOTALL for a brace, anything, a closing brace
\* (video_analyzer.py line 52): from the first "{" to the last "}" of the text.
Search(text) ==
    LET opens == {i \in 1..Len(text) : text[i] = "{"}
        closes == {j \in 1..Len(text) : text[j] = "}"}
    IN IF opens = {} \/ closes = {} THEN NoMatch
       ELSE LET first == CHOOSE i \in opens : \A k \in opens : i <= k
                last == CHOOSE j \in closes : \A k \in closes : k <= j
            IN IF first < last THEN SubSeq(text, first, last) ELSE NoMatch

\* The API call raised: video_analyzer.py lines 62-64, simple_video_analyzer.py
\* lines 144-160.
ApiError == [error |-> "api error"]
ApiFailure == [raw_json_response |-> <<"null">>, error |-> "api error", success |-> FALSE]

\* run_gemini_analysis_sync, lines 52-64
RunGeminiAnalysis(text, api_ok) ==
    IF ~api_ok THEN ApiError
    ELSE LET json_str == Search(text) IN
           IF json_str = NoMatch THEN [error |-> "No JSON object found in response."]
           ELSE IF JsonValid(json_str) THEN [data |-> JsonLoads(json_str)]
           ELSE [error |-> "JSONDecodeError"]

\* str.strip(): white space off both ends
RECURSIVE LStrip(_)
LStrip(text) ==
    IF text # <<>> /\ Head(text) = "nl" THEN LStrip(Tail(text)) ELSE text
RECURSIVE RStrip(_)
RStrip(text) ==
    IF text # <<>> /\ text[Len(text)] = "nl"
    THEN RStrip(SubSeq(text, 1, Len(text) - 1))
    ELSE text
Strip(text) == RStrip(LStrip(text))

\* str.replace of the fence mark followed by json: every such pair goes
RECURSIVE ReplaceFenceJson(_)
ReplaceFenceJson(text) ==
    IF text = <<>> THEN <<>>
    ELSE IF Len(text) >= 2 /\ text[1] = "fence" /\ text[2] = "json"
         THEN ReplaceFenceJson(Tail(Tail(text)))
         ELSE <<Head(text)>> \o ReplaceFenceJson(Tail(text))

\* str.replace of the fence mark: every one goes, those inside string
\* values too
RECURSIVE ReplaceFence(_)
ReplaceFence(text) ==
    IF text = <<>> THEN <<>>
    ELSE IF Head(text) = "fence" THEN ReplaceFence(Tail(text))
    ELSE IF Head(text) = "kf" THEN <<"ke">> \o ReplaceFence(Tail(text))
    ELSE <<Head(text)>> \o ReplaceFence(Tail(text))

\* simple_video_analyzer.py lines 112-119
CleanResponse(text) ==
    LET raw_response == Strip(text) IN
      IF Len(raw_response) >= 2 /\ raw_response[1] = "fence" /\ raw_response[2] = "json"
      THEN Strip(ReplaceFence(ReplaceFenceJson(raw_response)))
      ELSE IF Len(raw_response) >= 1 /\ raw_response[1] = "fence"
           THEN Strip(ReplaceFence(raw_response))
           ELSE raw_response

\* simple_video_analyzer.py lines 100-160: the result kept for one frame
AnalyzeFrame(text, api_ok) ==
    IF ~api_ok THEN ApiFailure
    ELSE [raw_json_response |-> CleanResponse(text), success |-> TRUE]

\* video_analyzer.py: one chunk is analysed (and, next to it, the bare form
\* of the same response)
RunGeminiAnalysisSync ==
    /\ apc = "idle"
    /\ \E inp \in AnalyzerInputs, api_ok \in BOOLEAN :
         /\ atext' = inp.text
         /\ abase' = inp.base
         /\ aresult' = RunGeminiAnalysis(inp.text, api_ok)
         /\ aresult_base' = RunGeminiAnalysis(inp.base, api_ok)
    /\ apc' = "done"
    /\ UNCHANGED <<sresult, sresult_base>>
    /\ UNCHANGED <<segVars, evVars, dpVars, rtVars, plVars, snVars, htVars>>

\* simple_video_analyzer.py: one frame is analysed (and, next to it, the bare
\* form of the same response)
AnalyzeVideoFile ==
    /\ apc = "idle"
    /\ \E inp \in AnalyzerInputs, api_ok \in BOOLEAN :
         /\ atext' = inp.text
         /\ abase' = inp.base
         /\ sresult' = AnalyzeFrame(inp.text, api_ok)
         /\ sresult_base' = AnalyzeFrame(inp.base, api_ok)
    /\ apc' = "done"
    /\ UNCHANGED <<aresult, aresult_base>>
    /\ UNCHANGED <<segVars, evVars, dpVars, rtVars, plVars, snVars, htVars>>

\* The result has been taken; the next chunk or frame can come.
AnalyzerReturn ==
    /\ apc = "done"
    /\ apc' = "idle"
    /\ atext' = <<>>
    /\ abase' = <<>>
    /\ aresult' = None
    /\ aresult_base' = None
    /\ sresult' = None
    /\ sresult_base' = None
    /\ UNCHANGED <<segVars, evVars, dpVars, rtVars, plVars, snVars, htVars>>

InitAnalyzer == SegIdle /\ EvIdle /\ DpIdle /\ RtIdle /\ AnIdle /\ PlIdle /\ SnIdle /\ HtIdle

NextAnalyzer == RunGeminiAnalysisSync \/ AnalyzeVideoFile \/ AnalyzerReturn

SpecAnalyzer == InitAnalyzer /\ [][NextAnalyzer]_vars

\* The response was an object in a fence.
Fenced == atext # abase
\* Some stretch of the text is a JSON object.
Extractable(text) ==
    \E i \in 1..Len(text), j \in 1..Len(text) : i < j /\ JsonValid(SubSeq(text, i, j))

ChunkAnalysed == apc = "done" /\ aresult # None /\ aresult # ApiError
FrameAnalysed == apc = "done" /\ sresult # None /\ sresult # ApiFailure

\* C20, for both analyzers: a fenced JSON object gives the same
\* record as the bare object, and a response with no extractable JSON object
\* gives an error outcome, not a record.
C20_FencesAndMalformed ==
    /\ (ChunkAnalysed /\ Fenced) => ("data" \in DOMAIN aresult /\ aresult = aresult_base)
    /\ (ChunkAnalysed /\ ~Extractable(atext)) => DOMAIN aresult = {"error"}
    /\ (FrameAnalysed /\ Fenced) => sresult = sresult_base
    /\ (FrameAnalysed /\ ~Extractable(atext)) => ~sresult.success

\* ---------------------------------------------------------------------------
\* Order and optional fields of the records that reach the analysis
\* ---------------------------------------------------------------------------

\* C23: the records handed to the trend analysis are in end_utc-ascending
\* order, whatever order the event and the fetched history arrive in.
C23_AscendingOrder ==
    Analysed
        => \A i \in 1..Len(combined_data), j \in 1..Len(combined_data) :
               i < j => combined_data[i].end_utc_time <= combined_data[j].end_utc_time

\* C28: an event whose estimated_count is null, its other fields being
\* present and valid, is accepted by the validation and goes on to analysis.
C28_NullCountAccepted ==
    (epc = "done" /\ event_data # None /\ event_data.complete
                  /\ event_data.estimated_count = <<>>)
        => (response.text # "Error: Invalid event data structure" /\ Analysed)

\* ---------------------------------------------------------------------------
\* Termination of the chunking loop
\* ---------------------------------------------------------------------------

\* The windows cut so far are numbered 1, 2, ... and start chunk - overlap
\* apart, and there are no more of them than the duration has ticks.
WindowsInStep ==
    /\ \A i \in 1..Len(chunk_info_list) :
          /\ chunk_info_list[i].chunk_path = i
          /\ chunk_info_list[i].start_time = (i - 1) * (args.chunk - args.overlap)
    /\ \A i \in 1..(Len(chunk_info_list) - 1) :
          chunk_info_list[i].start_time < chunk_info_list[i + 1].start_time
    /\ Len(chunk_info_list) <= args.total

\* C26: for every total_duration, chunk_duration and overlap < chunk_duration
\* the chunking loop terminates after finitely many windows, whose start
\* offsets increase strictly by chunk_duration - overlap and whose indices
\* are consecutive from 1.
C26_LoopTerminates ==
    /\ [](pc \in {"loop", "done"} => WindowsInStep)
    /\ [](pc = "loop" => args.overlap < args.chunk)
    /\ (pc = "loop" ~> pc = "done")

\* The loop has ended after three windows or more, cut with an overlap.
C26_Witness ==
    /\ pc = "done"
    /\ outcome = "ok"
    /\ Len(chunk_info_list) >= 3
    /\ args.overlap > 0

\* ---------------------------------------------------------------------------
\* The pipeline: video_splitter.main (lines 134-209)
\* ---------------------------------------------------------------------------

\* Most chunks the input video is cut into.
MaxPipeChunks == 3

\* lines 152-158: split_video(chunk_duration=5, overlap=1, start_utc_time=now)
\* on a video that gives n chunks
PipeArgs(n) ==
    [total |-> IF n = 0 THEN 0 ELSE Sec(4) * (n - 1) + Sec(1),
     chunk |-> Sec(5), overlap |-> Sec(1),
     start |-> [kind |-> "z", t |-> 0], file_ok |-> TRUE, probe_ok |-> TRUE]
PipeChunks(n) ==
    [i \in 1..n |->
        ChunkInfo(PipeArgs(n), ParseStart(PipeArgs(n), 0), (i - 1) * Step(PipeArgs(n)), i)]

\* What analyze_video_chunk can return: the error record of
\* run_gemini_analysis_sync, or the JSON object the model wrote, with or
\* without the key needs_security_intervention.
Finding(a, needs) ==
    [crowd_density |-> a.crowd_density, crowd_flow |-> a.crowd_flow,
     fire_smoke_detected |-> a.fire_smoke_detected, safety_level |-> a.safety_level,
     estimated_count |-> a.estimated_count, needs_security_intervention |-> needs]
Unkeyed(a) ==
    [crowd_density |-> a.crowd_density, crowd_flow |-> a.crowd_flow,
     fire_smoke_detected |-> a.fire_smoke_detected, safety_level |-> a.safety_level,
     estimated_count |-> a.estimated_count]
ChunkAnalyses ==
    {[error |-> "No JSON object found in response."], [error |-> "JSONDecodeError"],
     Unkeyed(Quiet)}
        \cup {Finding(a, needs) : a \in {Quiet, Crush}, needs \in {"yes", "no"}}

\* lines 165-172: the two checks that let a result through
UsableBad(result) == TRUE
Usable(result) ==
    /\ "error" \notin DOMAIN result
    /\ "needs_security_intervention" \in DOMAIN result

\* lines 175-178: {**chunk, **analysis}
Flatten(chunk, result) ==
    [key \in DOMAIN chunk \cup DOMAIN result |->
        IF key \in DOMAIN result THEN result[key] ELSE chunk[key]]

evRest == <<epc, event_data, recent_events, combined_data, analysis, response,
            latest_frames, prediction>>
dpRest == <<decisions, dnow>>

\* lines 135-161: the video is split and the loop over the chunks begins
PipelineStart ==
    /\ ppc = "idle"
    /\ \E n \in 0..MaxPipeChunks : pchunks' = PipeChunks(n)
    /\ pidx' = 1
    /\ ppc' = "next"
    /\ panalysis' = None
    /\ panalyses' = <<>>
    /\ analysis_results' = <<>>
    /\ poutcome' = "none"
    /\ UNCHANGED <<segVars, evVars, dpVars, rtVars, anVars, snVars, htVars>>

\* line 163: the next chunk is analysed
AnalyseChunk ==
    /\ ppc = "next"
    /\ pidx <= Len(pchunks)
    /\ \E result \in ChunkAnalyses :
         /\ panalysis' = result
         /\ panalyses' = Append(panalyses, result)
    /\ ppc' = "analysed"
    /\ UNCHANGED <<pchunks, pidx, analysis_results, poutcome>>
    /\ UNCHANGED <<segVars, evVars, dpVars, rtVars, anVars, snVars, htVars>>

\* lines 165-172: the chunk is skipped
SkipChunk ==
    /\ ppc = "analysed"
    /\ ~Usable(panalysis)
    /\ pidx' = pidx + 1
    /\ ppc' = "next"
    /\ panalysis' = None
    /\ UNCHANGED <<pchunks, panalyses, analysis_results, poutcome>>
    /\ UNCHANGED <<segVars, evVars, dpVars, rtVars, anVars, snVars, htVars>>

\* lines 175-187: the flattened result is kept and written to the events
\* collection; the write can raise, which no except clause of main catches
StoreResult ==
    /\ ppc = "analysed"
    /\ Usable(panalysis)
    /\ analysis_results' = Append(analysis_results, Flatten(pchunks[pidx], panalysis))
    /\ \E written \in BOOLEAN :
         IF written
         THEN /\ store' \in Stored(store,
                                   [i \in 1..Len(store) |-> store[i].end_utc_time.t],
                                   Flatten(pchunks[pidx], panalysis),
                                   Flatten(pchunks[pidx], panalysis).end_utc_time.t)
              /\ ppc' = "stored"
              /\ poutcome' = poutcome
         ELSE /\ store' = store
              /\ ppc' = "done"
              /\ poutcome' = "raised"
    /\ UNCHANGED <<pchunks, pidx, panalysis, panalyses>>
    /\ UNCHANGED <<segVars, evRest, dpVars, rtVars, anVars, snVars, htVars>>

\* lines 189-191: the analysis itself is published on the dispatcher topic
\* when it asks for intervention; a failed publish raises out of main
PublishAnalysis ==
    /\ ppc = "stored"
    /\ IF panalysis.needs_security_intervention = "yes"
       THEN \E acked \in BOOLEAN :
              IF acked
              THEN /\ published' = Append(published, panalysis)
                   /\ ppc' = "next"
                   /\ pidx' = pidx + 1
                   /\ poutcome' = poutcome
              ELSE /\ published' = published
                   /\ ppc' = "done"
                   /\ pidx' = pidx
                   /\ poutcome' = "raised"
       ELSE /\ published' = published
            /\ ppc' = "next"
            /\ pidx' = pidx + 1
            /\ poutcome' = poutcome
    /\ panalysis' = IF ppc' = "next" THEN None ELSE panalysis
    /\ UNCHANGED <<pchunks, panalyses, analysis_results>>
    /\ UNCHANGED <<segVars, evVars, dpRest, rtVars, anVars, snVars, htVars>>

\* lines 193-196: every chunk has been gone through
PipelineEnd ==
    /\ ppc = "next"
    /\ pidx > Len(pchunks)
    /\ ppc' = "done"
    /\ poutcome' = "ok"
    /\ UNCHANGED <<pchunks, pidx, panalysis, panalyses, analysis_results>>
    /\ UNCHANGED <<segVars, evVars, dpVars, rtVars, anVars, snVars, htVars>>

InitPipeline == SegIdle /\ EvIdle /\ DpIdle /\ RtIdle /\ AnIdle /\ PlIdle /\ SnIdle /\ HtIdle

NextPipeline ==
    \/ PipelineStart
    \/ AnalyseChunk
    \/ SkipChunk
    \/ StoreResult
    \/ PublishAnalysis
    \/ PipelineEnd

SpecPipeline == InitPipeline /\ [][NextPipeline]_vars

Failed(result) == "error" \in DOMAIN result
AsksIntervention(result) ==
    /\ ~Failed(result)
    /\ "needs_security_intervention" \in DOMAIN result
    /\ result.needs_security_intervention = "yes"
StoredChunks == {store[k].chunk_path : k \in 1..Len(store)}

\* C21: a failed analysis of one chunk is a missing data point and not fatal:
\* nothing is stored and nothing is published for that chunk, and the later
\* chunks are still analysed and, when their analysis is usable, stored.
C21_FailedChunkSkipped ==
    /\ \A i \in 1..Len(panalyses) :
          Failed(panalyses[i]) => i \notin StoredChunks
    /\ \A k \in 1..Len(published) : ~Failed(published[k])
    /\ Len(published)
          <= Cardinality({i \in 1..Len(panalyses) : AsksIntervention(panalyses[i])})
    /\ (ppc = "done" /\ poutcome = "raised") => ~Failed(panalyses[Len(panalyses)])
    /\ (ppc = "analysed" /\ Failed(panalysis)) => ENABLED SkipChunk
    /\ (ppc = "done" /\ poutcome = "ok")
          => /\ Len(panalyses) = Len(pchunks)
             /\ \A i \in 1..Len(panalyses) :
                   (~Failed(panalyses[i])
                       /\ "needs_security_intervention" \in DOMAIN panalyses[i])
                       => i \in StoredChunks

\* The first chunk's analysis failed, and the pipeline has gone on to store
\* the second.
C21_Witness ==
    /\ ppc = "done"
    /\ poutcome = "ok"
    /\ Len(panalyses) >= 2
    /\ Failed(panalyses[1])
    /\ StoredChunks = {2}

\* C25: every message on the dispatcher topic, whoever published it, is a
\* dispatch request with exactly the fields unit_type, location, priority,
\* timestamp and status, status being "dispatched".
C25_OnlyDispatchRequests ==
    \A k \in 1..Len(published) :
        /\ DOMAIN published[k] = {"unit_type", "location", "priority", "timestamp", "status"}
        /\ published[k].status = "dispatched"

\* ---------------------------------------------------------------------------
\* Sessions of SecurityMultiAgentSystem under concurrent calls
\* (drishti_agent.py lines 316-463)
\* ---------------------------------------------------------------------------

\* Messages received in one behaviour.
MaxMessages == 2

\* The calls: process_message with any agent_type, handle_event with a valid
\* or an invalid event, handle_security_chat, handle_dispatch; kind is the
\* agent_type the message is processed with.
Call(entry, kind, valid) == [entry |-> entry, kind |-> kind, valid |-> valid]
SystemCalls ==
    {Call("process_message", k, TRUE) : k \in KindSet} \cup
    {Call("handle_event", "qualitative", TRUE),
     Call("handle_event", "qualitative", FALSE),
     Call("handle_security_chat", "security_chat", TRUE),
     Call("handle_dispatch", "dispatch", TRUE)}

\* self.session_ids[agent_type], line 388
SessionOf(agent_type) == agent_type

\* process_message lines 395-404
FinalResponse(final) == IF final THEN "final response" ELSE "No response received"

Entry(role, n) == [role |-> role, msg |-> n]

\* A call starts: every entry point first awaits setup_sessions, whose test
\* of setup_complete (line 374) is made at once.
StartCall(t) ==
    /\ tpc[t] = "idle"
    /\ nmsg < MaxMessages
    /\ nmsg' = nmsg + 1
    /\ tmsg' = [tmsg EXCEPT ![t] = nmsg + 1]
    /\ \E c \in SystemCalls : tcall' = [tcall EXCEPT ![t] = c]
    /\ tresp' = [tresp EXCEPT ![t] = <<>>]
    /\ IF setup_complete
       THEN tpc' = [tpc EXCEPT ![t] = "ready"] /\ tcur' = tcur
       ELSE tpc' = [tpc EXCEPT ![t] = "create"] /\ tcur' = [tcur EXCEPT ![t] = 1]
    /\ UNCHANGED <<setup_complete, created, history>>
    /\ UNCHANGED <<segVars, evVars, dpVars, rtVars, anVars, plVars, htVars>>

\* setup_sessions lines 375-381: one awaited create_session, which puts a new,
\* empty session under the id; after the last one setup_complete is set.
CreateSession(t) ==
    /\ tpc[t] = "create"
    /\ LET k == Kinds[tcur[t]] IN
         /\ created' = [created EXCEPT ![k] = @ + 1]
         /\ history' = [history EXCEPT ![k] = <<>>]
    /\ IF tcur[t] = Len(Kinds)
       THEN /\ setup_complete' = TRUE
            /\ tpc' = [tpc EXCEPT ![t] = "ready"]
            /\ tcur' = [tcur EXCEPT ![t] = 0]
       ELSE /\ setup_complete' = setup_complete
            /\ tpc' = tpc
            /\ tcur' = [tcur EXCEPT ![t] = @ + 1]
    /\ UNCHANGED <<tcall, tmsg, tresp, nmsg>>
    /\ UNCHANGED <<segVars, evVars, dpVars, rtVars, anVars, plVars, htVars>>

\* handle_event lines 410-415 reject an invalid event; otherwise
\* process_message lines 387-402 give the message to the runner of the kind,
\* which appends it to the session of that kind.
BeginRun(t) ==
    /\ tpc[t] = "ready"
    /\ IF ~tcall[t].valid
       THEN /\ tpc' = [tpc EXCEPT ![t] = "done"]
            /\ tresp' = [tresp EXCEPT ![t] = <<"Error: Invalid event data structure">>]
            /\ history' = history
       ELSE /\ tpc' = [tpc EXCEPT ![t] = "running"]
            /\ tresp' = tresp
            /\ history' = [history EXCEPT ![SessionOf(tcall[t].kind)] =
                              Append(@, Entry("user", tmsg[t]))]
    /\ UNCHANGED <<setup_complete, created, tcall, tcur, tmsg, nmsg>>
    /\ UNCHANGED <<segVars, evVars, dpVars, rtVars, anVars, plVars, htVars>>

\* process_message lines 395-404: the run ends with a final response, which
\* the session keeps, or without one, and process_message returns the text;
\* handle_event puts "Event Analysis: " before it (line 437), the other entry
\* points return it as it is.  A returned value is the sequence of the pieces
\* of its text, <<>> standing for no value.  runner.run_async can also raise
\* (the remote model call fails): nothing between lines 396 and 463 catches
\* the exception, so the call ends with it and returns nothing.
EndRun(t) ==
    /\ tpc[t] = "running"
    /\ \E ending \in {"final", "no final", "raised"} :
         IF ending = "raised"
         THEN /\ tresp' = tresp
              /\ history' = history
              /\ tpc' = [tpc EXCEPT ![t] = "raised"]
         ELSE /\ tresp' = [tresp EXCEPT ![t] =
                    IF tcall[t].entry = "handle_event"
                    THEN <<"Event Analysis: ", FinalResponse(ending = "final")>>
                    ELSE <<FinalResponse(ending = "final")>>]
              /\ IF ending = "final"
                 THEN history' = [history EXCEPT ![SessionOf(tcall[t].kind)] =
                                     Append(@, Entry("model", tmsg[t]))]
                 ELSE history' = history
              /\ tpc' = [tpc EXCEPT ![t] = "done"]
    /\ UNCHANGED <<setup_complete, created, tcall, tcur, tmsg, nmsg>>
    /\ UNCHANGED <<segVars, evVars, dpVars, rtVars, anVars, plVars, htVars>>

\* The caller has the response, or the exception.
ReturnCall(t) ==
    /\ tpc[t] \in {"done", "raised"}
    /\ tpc' = [tpc EXCEPT ![t] = "idle"]
    /\ tcall' = [tcall EXCEPT ![t] = NoCall]
    /\ tmsg' = [tmsg EXCEPT ![t] = 0]
    /\ tresp' = [tresp EXCEPT ![t] = <<>>]
    /\ UNCHANGED <<setup_complete, created, history, tcur, nmsg>>
    /\ UNCHANGED <<segVars, evVars, dpVars, rtVars, anVars, plVars, htVars>>

InitSessions == SegIdle /\ EvIdle /\ DpIdle /\ RtIdle /\ AnIdle /\ PlIdle /\ SnIdle /\ HtIdle

TaskStep(t) == CreateSession(t) \/ BeginRun(t) \/ EndRun(t) \/ ReturnCall(t)

NextSessions == \E t \in Tasks : StartCall(t) \/ TaskStep(t)

SpecSessions == InitSessions /\ [][NextSessions]_vars

\* The event loop keeps running the steps of a call that are this program's
\* own: the validation and the hand-over to the runner, and the return to the
\* caller.  Nothing makes an awaited create_session or the runner's remote
\* model call come back: no timeout is set on either.
SpecSessionsFair ==
    SpecSessions /\ \A t \in Tasks : WF_vars(BeginRun(t)) /\ WF_vars(ReturnCall(t))

\* C29: each of the four sessions is created exactly once, whatever the
\* interleaving of the calls that start before the setup has completed.
C29_CreatedOnce ==
    \A k \in KindSet :
        /\ created[k] <= 1
        /\ setup_complete => created[k] = 1

\* C24: a step of a call changes the history of no session but the one of
\* the call's own kind.
C24_SessionsIndependent ==
    [][\A t \in Tasks : \A k \in KindSet :
          (tpc'[t] # tpc[t] \/ tcur'[t] # tcur[t]) /\ history'[k] # history[k]
              => k = tcall[t].kind]_vars

\* C27: every message, once started, yields exactly one response, also when
\* the event is invalid or the run produces no final response, and its
\* handling returns to idle.
C27_OneResponseThenIdle ==
    /\ [](\A t \in Tasks :
            /\ tpc[t] \in {"done", "raised"} => tresp[t] # <<>>
            /\ tpc[t] \notin {"done", "raised"} => tresp[t] = <<>>)
    /\ \A t \in Tasks : (tpc[t] # "idle") ~> (tpc[t] = "idle")

\* ---------------------------------------------------------------------------
\* The HTTP surface: app.py lines 11-19, orchestrator.py lines 12-40
\* ---------------------------------------------------------------------------

\* Requests received in one behaviour.
MaxRequests == 3

Bodies == [user_id : Users, message : {"status?", "help"}]

\* orchestrator.py lines 12-26: OrchestratorAgent() builds new agents and a
\* new AdkApp, whose runner holds no session yet.
NewRunnerSession == <<>>

Turn(role, text) == [role |-> role, text |-> text]

\* orchestrator.py lines 34-40: the last event's first part, or None
Invoke(all_events) ==
    IF all_events # <<>> THEN all_events[Len(all_events)] ELSE None

\* app.py lines 16-17: the body is read and an orchestrator is constructed
\* for this request
AnalyzeCrowd ==
    /\ hpc = "idle"
    /\ Len(hlog["u1"]) + Len(hlog["u2"]) < MaxRequests
    /\ \E body \in Bodies : hbody' = body
    /\ hsession' = NewRunnerSession
    /\ hresponse' = None
    /\ hpc' = "invoking"
    /\ UNCHANGED hlog
    /\ UNCHANGED <<segVars, evVars, dpVars, rtVars, anVars, plVars, snVars>>

\* app.py line 18, orchestrator.py lines 34-40: stream_query runs the message
\* in the runner's session for the user; the events are collected
HttpInvoke ==
    /\ hpc = "invoking"
    /\ \E all_events \in {<<>>, <<Turn("model", hbody.message)>>} :
         /\ hsession' = hsession \o <<Turn("user", hbody.message)>> \o all_events
         /\ hresponse' = Invoke(all_events)
         /\ hlog' = [hlog EXCEPT ![hbody.user_id] = Append(@,
                        [message |-> Turn("user", hbody.message), events |-> all_events])]
    /\ hpc' = "done"
    /\ UNCHANGED hbody
    /\ UNCHANGED <<segVars, evVars, dpVars, rtVars, anVars, plVars, snVars>>

\* app.py line 19: the response is returned; the orchestrator of the request
\* is no longer referenced
HttpReturn ==
    /\ hpc = "done"
    /\ hpc' = "idle"
    /\ hbody' = None
    /\ hsession' = <<>>
    /\ hresponse' = None
    /\ UNCHANGED hlog
    /\ UNCHANGED <<segVars, evVars, dpVars, rtVars, anVars, plVars, snVars>>

InitHttp == SegIdle /\ EvIdle /\ DpIdle /\ RtIdle /\ AnIdle /\ PlIdle /\ SnIdle /\ HtIdle

NextHttp == AnalyzeCrowd \/ HttpInvoke \/ HttpReturn

SpecHttp == InitHttp /\ [][NextHttp]_vars

\* The messages and responses of a user's requests, in order.
RECURSIVE Transcript(_)
Transcript(log) ==
    IF log = <<>> THEN <<>>
    ELSE <<Head(log).message>> \o Head(log).events \o Transcript(Tail(log))

\* C22: when a message of a user has been handled, the history of the session
\* it was handled in holds, in order, every earlier message of that user
\* and its response, and then this one.
C22_HistoryPersists ==
    hpc = "done" => hsession = Transcript(hlog[hbody.user_id])

====
